---- MODULE Spec2Model ----
(***************************************************************************)
(* Model of src/app/page.js: the paginated product listing page.           *)
(*                                                                         *)
(*   fetchProducts(page)   the Fetcher: one HTTP GET with skip and limit   *)
(*   ProductsPage          the Page Controller: loading / products /       *)
(*                         error / hasMore, one effect keyed on [page]     *)
(*   Pagination            the links derived from (currentPage, hasMore)   *)
(*                                                                         *)
(* JavaScript values are tagged records, so that the string "1" of the URL *)
(* and the number 1 of the default stay different values, and every use    *)
(* of a page value as a number goes through the conversion the code does.  *)
(***************************************************************************)
EXTENDS Integers, Sequences, FiniteSets, Bags, TLC

VARIABLES
    searchParams,   \* searchParams.page: the URL query parameter (string or undefined)
    mounted,        \* TRUE once the effect of the first render has run
    loading,        \* useState(true)
    products,       \* useState([]): the sequence of product ids shown in the grid
    error,          \* useState(null)
    hasMore,        \* useState(true)
    inflight,       \* bag of loadProducts() calls suspended at `await fetchProducts(page)`
    last            \* history: the step taken last and what the Fetcher returned in it

vars == <<searchParams, mounted, loading, products, error, hasMore, inflight, last>>

----------------------------------------------------------------------------
(* Bounds of the model *)

\* URL page numbers range over the first LowPages pages, the page cap and
\* the page above it
LowPages == 3

\* at most this many loadProducts() calls are suspended at once
MaxInFlight == 2

----------------------------------------------------------------------------
(* Program constants *)

SkipStep == 20
Limit == 20
FullPage == 20
PageCap == 10

ERROR_MESSAGE == "Failed to load products. Please try again later."

Null == "null"

----------------------------------------------------------------------------
(* JavaScript values: undefined, a number, or a string of decimal digits *)

Undefined == [type |-> "undefined", num |-> 0, str |-> <<>>]
Num(n) == [type |-> "number", num |-> n, str |-> <<>>]
Str(s) == [type |-> "string", num |-> 0, str |-> s]

\* the decimal digits of n >= 0, as the browser writes them into the URL
RECURSIVE Digits(_)
Digits(n) == IF n < 10 THEN <<n>> ELSE Append(Digits(n \div 10), n % 10)

\* the value of a string of decimal digits (Number("") is 0)
RECURSIVE StringToNumber(_)
StringToNumber(s) ==
    IF s = <<>> THEN 0
    ELSE StringToNumber(SubSeq(s, 1, Len(s) - 1)) * 10 + s[Len(s)]

\* ToNumber: the coercion `page - 1` and `page > 10` apply to a string
ToNumber(v) == IF v.type = "number" THEN v.num ELSE StringToNumber(v.str)

\* ToBoolean: undefined, "" and 0 are falsy
Truthy(v) ==
    CASE v.type = "undefined" -> FALSE
      [] v.type = "string"    -> v.str # <<>>
      [] OTHER                -> v.num # 0

\* a || b
Or(a, b) == IF Truthy(a) THEN a ELSE b

\* parseInt(v, 10) of a number or of a string of decimal digits
ParseInt(v) == IF v.type = "number" THEN v.num ELSE StringToNumber(v.str)

----------------------------------------------------------------------------
(* The URLs a visitor can open: /, /?page= and /?page=n for n in PageNumbers *)

PageNumbers == 1..LowPages \cup {PageCap, PageCap + 1}

PageParam(n) == Str(Digits(n))

SearchParams == {Undefined, Str(<<>>)} \cup {PageParam(n) : n \in PageNumbers}

----------------------------------------------------------------------------
(* The Fetcher *)

\* FetchRequest with the offset taken from the page number itself
FetchRequest_PageTimes(page) == [skip |-> ToNumber(page) * SkipStep, limit |-> Limit]

\* the GET request of a call: .../products?skip=${skip}&limit=20
FetchRequest(page) == [skip |-> (ToNumber(page) - 1) * SkipStep, limit |-> Limit]

\* what the network and the backend can answer
NetworkError == [net |-> FALSE, status |-> 0, json |-> FALSE, len |-> 0]
HttpError(s) == [net |-> TRUE, status |-> s, json |-> FALSE, len |-> 0]
ParseError == [net |-> TRUE, status |-> 200, json |-> FALSE, len |-> 0]
OkResponse(n) == [net |-> TRUE, status |-> 200, json |-> TRUE, len |-> n]

FailureStatuses == {404, 500}

Responses(lens) ==
    {NetworkError, ParseError}
        \cup {HttpError(s) : s \in FailureStatuses}
        \cup {OkResponse(n) : n \in lens}

\* res.ok
ResOk(res) == res.status \in 200..299

\* the records of the body: the backend numbers its products from 1 and
\* answers a request with the len records that follow the skipped ones
ResJson(req, res) == [i \in 1..res.len |-> req.skip + i]

Thrown(inner) ==
    [threw |-> TRUE, products |-> <<>>, hasMore |-> FALSE,
     message |-> <<"Error fetching products: ">> \o inner]

\* fetchProducts with hasMore taken from a non-empty page
fetchProducts_NonEmpty(page, res) ==
    LET req == [skip |-> (ToNumber(page) - 1) * SkipStep, limit |-> Limit]
        data == ResJson(req, res)
    IN  IF ~res.net THEN Thrown(<<"fetch failed">>)
        ELSE IF ~ResOk(res)
             THEN Thrown(<<"Failed to fetch products: ", ToString(res.status)>>)
        ELSE IF ~res.json THEN Thrown(<<"invalid json">>)
        ELSE [threw |-> FALSE, products |-> data,
              hasMore |-> Len(data) > 0, message |-> <<>>]

\* fetchProducts keeping the records of earlier calls and adding to them
fetchProducts_Accumulating(page, res) ==
    LET req == [skip |-> (ToNumber(page) - 1) * SkipStep, limit |-> Limit]
        data == products \o ResJson(req, res)
    IN  IF ~res.net THEN Thrown(<<"fetch failed">>)
        ELSE IF ~ResOk(res)
             THEN Thrown(<<"Failed to fetch products: ", ToString(res.status)>>)
        ELSE IF ~res.json THEN Thrown(<<"invalid json">>)
        ELSE [threw |-> FALSE, products |-> data,
              hasMore |-> Len(data) = FullPage, message |-> <<>>]

\* fetchProducts(page), resumed with the answer res to its request
fetchProducts(page, res) ==
    LET req == FetchRequest(page)
        data == ResJson(req, res)
    IN  IF ~res.net THEN Thrown(<<"fetch failed">>)
        ELSE IF ~ResOk(res)
             THEN Thrown(<<"Failed to fetch products: ", ToString(res.status)>>)
        ELSE IF ~res.json THEN Thrown(<<"invalid json">>)
        ELSE [threw |-> FALSE, products |-> data,
              hasMore |-> Len(data) = FullPage, message |-> <<>>]

----------------------------------------------------------------------------
(* The Page Controller *)

\* const page = searchParams.page || 1
PageOf(sp) == Or(sp, Num(1))

page == PageOf(searchParams)

\* a suspended loadProducts(): the page of its closure and the request sent
Call(p) == [page |-> p, req |-> FetchRequest(p)]

\* the history variable: the step taken last, the page its code read (none
\* in the catch block), the answer it consumed and what fetchProducts made
\* of it
NoResponse == [net |-> FALSE, status |-> -1, json |-> FALSE, len |-> 0]
NoReturn == [threw |-> FALSE, products |-> <<>>, hasMore |-> FALSE, message |-> <<>>]

Event(ev, p, res, ret) == [ev |-> ev, page |-> p, res |-> res, ret |-> ret]

Init ==
    /\ searchParams \in SearchParams
    /\ mounted = FALSE
    /\ loading = TRUE
    /\ products = <<>>
    /\ error = Null
    /\ hasMore = TRUE
    /\ inflight = EmptyBag
    /\ last = Event("init", PageOf(searchParams), NoResponse, NoReturn)

\* loadProducts() up to its await: setLoading(true), then the request is sent
LoadProductsStart(p) ==
    /\ loading' = TRUE
    /\ inflight' = inflight (+) SetToBag({Call(p)})
    /\ UNCHANGED <<products, error, hasMore>>

\* the effect of the first render
Mount ==
    /\ ~mounted
    /\ mounted' = TRUE
    /\ LoadProductsStart(page)
    /\ last' = Event("mount", page, NoResponse, NoReturn)
    /\ UNCHANGED searchParams

\* the URL changes to sp: the component renders again with the new
\* searchParams, and the effect runs again iff its dependency [page] changed
Navigate(sp) ==
    /\ mounted
    /\ sp # searchParams
    /\ searchParams' = sp
    /\ IF PageOf(sp) # page
       THEN /\ BagCardinality(inflight) < MaxInFlight
            /\ LoadProductsStart(PageOf(sp))
            /\ last' = Event("effect", PageOf(sp), NoResponse, NoReturn)
       ELSE /\ UNCHANGED <<loading, products, error, hasMore, inflight>>
            /\ last' = Event("render", PageOf(sp), NoResponse, NoReturn)
    /\ UNCHANGED mounted

\* LoadProductsThen without the page limit in its test
LoadProductsThen_NoCap(c, res) ==
    LET ret == fetchProducts(c.page, res)
    IN  /\ c \in BagToSet(inflight)
        /\ ~ret.threw
        /\ inflight' = inflight (-) SetToBag({c})
        /\ hasMore' = IF ~ret.hasMore THEN FALSE ELSE hasMore
        /\ products' = ret.products
        /\ loading' = FALSE
        /\ last' = Event("then", c.page, res, ret)
        /\ UNCHANGED <<searchParams, mounted, error>>

\* LoadProductsThen dropping the result of a call whose page is no longer
\* the page of the URL
LoadProductsThen_Guarded(c, res) ==
    LET ret == fetchProducts(c.page, res)
        fresh == c.page = page
    IN  /\ c \in BagToSet(inflight)
        /\ ~ret.threw
        /\ inflight' = inflight (-) SetToBag({c})
        /\ hasMore' = IF fresh /\ (ToNumber(c.page) > PageCap \/ ~ret.hasMore)
                      THEN FALSE ELSE hasMore
        /\ products' = IF fresh THEN ret.products ELSE products
        /\ loading' = IF fresh THEN FALSE ELSE loading
        /\ last' = Event("then", c.page, res, ret)
        /\ UNCHANGED <<searchParams, mounted, error>>

\* LoadProductsThen writing hasMore in both directions
LoadProductsThen_SetsHasMore(c, res) ==
    LET ret == fetchProducts(c.page, res)
    IN  /\ c \in BagToSet(inflight)
        /\ ~ret.threw
        /\ inflight' = inflight (-) SetToBag({c})
        /\ hasMore' = ~(ToNumber(c.page) > PageCap \/ ~ret.hasMore)
        /\ products' = ret.products
        /\ loading' = FALSE
        /\ last' = Event("then", c.page, res, ret)
        /\ UNCHANGED <<searchParams, mounted, error>>

\* LoadProductsThen leaving loading set while other calls are suspended
LoadProductsThen_WaitsForAll(c, res) ==
    LET ret == fetchProducts(c.page, res)
    IN  /\ c \in BagToSet(inflight)
        /\ ~ret.threw
        /\ inflight' = inflight (-) SetToBag({c})
        /\ hasMore' = IF ToNumber(c.page) > PageCap \/ ~ret.hasMore
                      THEN FALSE ELSE hasMore
        /\ products' = ret.products
        /\ loading' = (inflight' # EmptyBag)
        /\ last' = Event("then", c.page, res, ret)
        /\ UNCHANGED <<searchParams, mounted, error>>

\* the fetch of call c is answered by res and fetchProducts returns:
\* the rest of the try block, then finally
LoadProductsThen(c, res) ==
    LET ret == fetchProducts(c.page, res)
    IN  /\ c \in BagToSet(inflight)
        /\ ~ret.threw
        /\ inflight' = inflight (-) SetToBag({c})
        /\ hasMore' = IF ToNumber(c.page) > PageCap \/ ~ret.hasMore
                      THEN FALSE ELSE hasMore
        /\ products' = ret.products
        /\ loading' = FALSE
        /\ last' = Event("then", c.page, res, ret)
        /\ UNCHANGED <<searchParams, mounted, error>>

\* LoadProductsCatch with an empty catch block
LoadProductsCatch_NoError(c, res) ==
    LET ret == fetchProducts(c.page, res)
    IN  /\ c \in BagToSet(inflight)
        /\ ret.threw
        /\ inflight' = inflight (-) SetToBag({c})
        /\ loading' = FALSE
        /\ last' = Event("catch", Undefined, res, ret)
        /\ UNCHANGED <<searchParams, mounted, products, hasMore, error>>

\* LoadProductsCatch without the finally block
LoadProductsCatch_NoFinally(c, res) ==
    LET ret == fetchProducts(c.page, res)
    IN  /\ c \in BagToSet(inflight)
        /\ ret.threw
        /\ inflight' = inflight (-) SetToBag({c})
        /\ error' = ERROR_MESSAGE
        /\ last' = Event("catch", Undefined, res, ret)
        /\ UNCHANGED <<searchParams, mounted, products, hasMore, loading>>

\* LoadProductsCatch emptying the list of products
LoadProductsCatch_ClearsProducts(c, res) ==
    LET ret == fetchProducts(c.page, res)
    IN  /\ c \in BagToSet(inflight)
        /\ ret.threw
        /\ inflight' = inflight (-) SetToBag({c})
        /\ error' = ERROR_MESSAGE
        /\ products' = <<>>
        /\ loading' = FALSE
        /\ last' = Event("catch", Undefined, res, ret)
        /\ UNCHANGED <<searchParams, mounted, hasMore>>

\* the fetch of call c is answered by res and fetchProducts throws:
\* the catch block, then finally
LoadProductsCatch(c, res) ==
    LET ret == fetchProducts(c.page, res)
    IN  /\ c \in BagToSet(inflight)
        /\ ret.threw
        /\ inflight' = inflight (-) SetToBag({c})
        /\ error' = ERROR_MESSAGE
        /\ loading' = FALSE
        /\ last' = Event("catch", Undefined, res, ret)
        /\ UNCHANGED <<searchParams, mounted, products, hasMore>>

----------------------------------------------------------------------------
(* Rendering *)

\* the three returns of ProductsPage
View ==
    IF loading THEN "skeleton"
    ELSE IF error # Null THEN "error"
    ELSE "grid"

\* Pagination({currentPage, hasMore}): the targets of the links it renders
Pagination(currentPage, more) ==
    LET pageNum == ParseInt(currentPage)
        prevPage == IF pageNum > 1 THEN {pageNum - 1} ELSE {}
        nextPage == pageNum + 1
    IN  [prev |-> {n \in prevPage : n # 0},
         next |-> IF more THEN {nextPage} ELSE {}]

NoLinks == [prev |-> {}, next |-> {}]

\* the links on screen: Pagination is rendered with the grid only
Links == IF View = "grid" THEN Pagination(page, hasMore) ELSE NoLinks

\* a click on a rendered link: <Link href={`/?page=${n}`}>
ClickLink(n) ==
    /\ n \in Links.prev \cup Links.next
    /\ n \in PageNumbers
    /\ Navigate(PageParam(n))

----------------------------------------------------------------------------
(* Specifications *)

\* the responses of the page's runs: an empty, a short and a full page
RunLens == {0, 5, Limit}

Next ==
    \/ Mount
    \/ \E sp \in SearchParams : Navigate(sp)
    \/ \E n \in PageNumbers : ClickLink(n)
    \/ \E c \in BagToSet(inflight), res \in Responses(RunLens) : LoadProductsThen(c, res)
    \/ \E c \in BagToSet(inflight), res \in Responses(RunLens) : LoadProductsCatch(c, res)

Spec == Init /\ [][Next]_vars

\* the await of some suspended loadProducts() ends, either way
Resolve ==
    \E c \in BagToSet(inflight), res \in Responses(RunLens) :
        LoadProductsThen(c, res) \/ LoadProductsCatch(c, res)

\* the runs in which the effect of the first render does run and every
\* request sent is answered or fails in the end
LiveSpec == Init /\ [][Next]_vars /\ WF_vars(Mount) /\ WF_vars(Resolve)

\* one fetch cycle of a freshly opened page, over every URL and every answer
\* of 0..Limit records: the Fetcher on all of its inputs
FetchNext ==
    \/ Mount
    \/ \E c \in BagToSet(inflight), res \in Responses(0..Limit) : LoadProductsThen(c, res)
    \/ \E c \in BagToSet(inflight), res \in Responses(0..Limit) : LoadProductsCatch(c, res)

FetchSpec == Init /\ [][FetchNext]_vars

----------------------------------------------------------------------------
(* Properties *)

\* the number of the page a page value stands for, where it is a page of
\* the model (0 otherwise)
PageNumberOf(p) ==
    IF p = Num(1) THEN 1
    ELSE IF \E n \in PageNumbers : p = PageParam(n)
         THEN CHOOSE n \in PageNumbers : p = PageParam(n)
         ELSE 0

\* the records number (p-1)*20+1 .. (p-1)*20+n of the backend
RecordsOfPage(p, n) == [i \in 1..n |-> (p - 1) * 20 + i]

NonSuccessStatus(res) == res.net /\ (res.status < 200 \/ res.status > 299)

\* C1: when a fetch is answered with a non-2xx status, then right after it
\* has resolved error is the fixed message, loading is false and the error
\* text alone is rendered (no grid, no pagination links), for every page and
\* whatever happened before.
C1_HttpFailureShowsError ==
    (last.ev = "catch" /\ NonSuccessStatus(last.res)) =>
        /\ error = "Failed to load products. Please try again later."
        /\ loading = FALSE
        /\ View = "error"
        /\ Links = NoLinks

\* a 500 answered to the second of two fetches, after the first one succeeded
C1_Witness ==
    /\ last.ev = "catch"
    /\ last.res = HttpError(500)
    /\ products # <<>>
    /\ View = "error"

\* C2: after a successful fetch for a page above 10 has been committed,
\* hasMore is false whatever the Fetcher reported, and no Next Page link is
\* rendered.
C2_AboveCapNoMore ==
    (last.ev = "then" /\ PageNumberOf(last.page) > 10) =>
        /\ hasMore = FALSE
        /\ Links.next = {}

\* a full page of 20 records committed for page 11, shown in the grid
C2_Witness ==
    /\ last.ev = "then"
    /\ last.page = PageParam(11)
    /\ Len(products) = 20
    /\ last.ret.hasMore
    /\ View = "grid"

\* C3: after a successful fetch of a full page for a page p <= 10 has been
\* committed, hasMore is true and Pagination renders a Next Page link to
\* p+1, in every reachable state.
C3_FullPageHasNext ==
    \A p \in PageNumbers :
        (last.ev = "then" /\ PageNumberOf(last.page) = p /\ p <= 10
            /\ last.res.len = 20) =>
            /\ hasMore = TRUE
            /\ Pagination(last.page, hasMore).next = {p + 1}

\* C4: every fetch cycle started on mount or on a change of the page number
\* sets loading to true and clears the error set by an earlier cycle.
C4_CycleClearsError ==
    last.ev \in {"mount", "effect"} => (loading = TRUE /\ error = Null)

\* C5: there is no request-generation guard: a fetch that resolves
\* successfully commits its records and ends the loading state even when
\* its page is no longer the page of the URL.
C5_StaleResultCommitted ==
    \A p \in PageNumbers :
        (last.ev = "then" /\ PageNumberOf(last.page) = p) =>
            /\ products = RecordsOfPage(p, last.res.len)
            /\ loading = FALSE
            /\ (last.res.len < 20 => hasMore = FALSE)

\* the older fetch resolved last: nothing is in flight, the grid shows the
\* records of a page other than the page of the URL
C5_Witness ==
    /\ last.ev = "then"
    /\ inflight = EmptyBag
    /\ View = "grid"
    /\ PageNumberOf(page) = 2
    /\ products = RecordsOfPage(1, 20)

\* C6: the Fetcher is never invoked with a page number above 10.
C6_NeverFetchesAboveCap ==
    \A c \in BagToSet(inflight) :
        PageNumberOf(c.page) <= 10 /\ c.req.skip <= 9 * 20

\* C7: exactly one of loading, error set and products populated holds.
C7_ExactlyOneCondition ==
    /\ loading \/ error # Null \/ products # <<>>
    /\ ~(loading /\ error # Null)
    /\ ~(loading /\ products # <<>>)
    /\ ~(error # Null /\ products # <<>>)

\* C7 (amended): exactly one view is active, chosen by priority: the
\* placeholder when loading, else the error text when error is set, else
\* the grid; the placeholder is active only before the mount effect or
\* while a fetch is in flight, the error view shows the fixed message and
\* no links, and the grid is active only with loading false and no error.
C7_OneActiveView ==
    /\ View \in {"skeleton", "error", "grid"}
    /\ View = "skeleton" => (loading /\ (~mounted \/ inflight # EmptyBag))
    /\ View = "error" =>
        (~loading /\ error = "Failed to load products. Please try again later."
            /\ Links = NoLinks)
    /\ View = "grid" => (mounted /\ ~loading /\ error = Null)

\* the error text over stale records of an earlier page
C7_Witness ==
    /\ View = "error"
    /\ products # <<>>
    /\ inflight = EmptyBag

\* C8: the request of every fetch carries skip = (page-1)*20 and limit = 20,
\* and the fetch started on mount or on a page change is for the page of
\* the URL query parameter, 1 when the parameter is absent.
C8_SkipAndLimit ==
    /\ \A c \in BagToSet(inflight) :
        /\ PageNumberOf(c.page) >= 1
        /\ c.req = [skip |-> (PageNumberOf(c.page) - 1) * 20, limit |-> 20]
    /\ last.ev \in {"mount", "effect"} =>
        /\ \A n \in PageNumbers :
            searchParams = Str(Digits(n)) =>
                \E c \in BagToSet(inflight) :
                    c.page = last.page /\ c.req.skip = (n - 1) * 20
        /\ searchParams = Undefined =>
            \E c \in BagToSet(inflight) :
                c.page = last.page /\ c.req.skip = 0

\* the fetch of /?page=3 in flight with skip 40, behind an older one
C8_Witness ==
    /\ last.ev = "effect"
    /\ searchParams = PageParam(3)
    /\ BagCardinality(inflight) = 2
    /\ \E c \in BagToSet(inflight) : c.req = [skip |-> 40, limit |-> 20]

\* C9: for a successful response of n records, 0 <= n <= 20, the Fetcher
\* returns the records unchanged and hasMore = (n = 20).
C9_HasMoreIffFullPage ==
    \A n \in 0..20 :
        (last.ev = "then" /\ last.res = OkResponse(n)) =>
            /\ ~last.ret.threw
            /\ last.ret.products = RecordsOfPage(PageNumberOf(last.page), n)
            /\ Len(last.ret.products) = n
            /\ last.ret.hasMore = (n = 20)

\* 19 records: one short of a full page
C9_Witness ==
    /\ last.ev = "then"
    /\ last.res = OkResponse(19)
    /\ Len(last.ret.products) = 19
    /\ ~last.ret.hasMore

\* C10: after a successful fetch of fewer than 20 records for a page p > 1
\* has been committed, Pagination renders a Previous Page link to p-1 and
\* no Next Page link.
C10_ShortPageLinks ==
    \A p \in PageNumbers :
        (last.ev = "then" /\ PageNumberOf(last.page) = p /\ p > 1
            /\ last.res.len < 20) =>
            Links = [prev |-> {p - 1}, next |-> {}]

\* a step in which a suspended loadProducts() resumed
ThenStep == last'.ev = "then" /\ inflight' # inflight
CatchStep == last'.ev = "catch" /\ inflight' # inflight

\* C11: the failure handler, for an HTTP status error as for a transport or
\* parse error, sets error to the fixed message and loading to false and
\* leaves products and hasMore exactly as they were.
C11_FailureFrame ==
    [][CatchStep =>
        /\ error' = "Failed to load products. Please try again later."
        /\ loading' = FALSE
        /\ products' = products
        /\ hasMore' = hasMore]_vars

\* a transport error handled over the records of an earlier page, with
\* hasMore still true
C11_Witness ==
    /\ last.ev = "catch"
    /\ last.res = NetworkError
    /\ products = RecordsOfPage(1, 20)
    /\ hasMore = TRUE
    /\ error = ERROR_MESSAGE

\* C12: what the Fetcher returns for a page is decided by the page and the
\* answer of the backend alone, at every point of a run, so two fetches of
\* the same page that get the same answer return identical
\* {products, hasMore}.
C12_FetcherIdempotent ==
    [][ThenStep =>
        /\ \A p \in PageNumbers :
            PageNumberOf(last'.page) = p =>
                /\ last'.ret.products = RecordsOfPage(p, last'.res.len)
                /\ last'.ret.hasMore = (last'.res.len = 20)
        /\ (last.ev = "then" /\ last.page = last'.page /\ last.res = last'.res)
            => last'.ret = last.ret]_vars

\* the first of two fetches of /?page=2 has returned a full page and the
\* second is still in flight
C12_Witness ==
    /\ last.ev = "then"
    /\ last.page = PageParam(2)
    /\ last.res = OkResponse(20)
    /\ products # <<>>
    /\ Call(PageParam(2)) \in BagToSet(inflight)

\* C13: hasMore starts true and, once false, is never true again, whatever
\* page change or fetch result follows.
C13_HasMoreMonotone ==
    /\ Init => hasMore = TRUE
    /\ [][hasMore = FALSE => hasMore' = FALSE]_vars

\* hasMore still false right after a full page for a page <= 10 was committed
C13_Witness ==
    /\ last.ev = "then"
    /\ last.res = OkResponse(20)
    /\ PageNumberOf(last.page) = 2
    /\ PageNumberOf(page) = 2
    /\ hasMore = FALSE

\* C14: when every request sent is answered or fails in the end, loading
\* always becomes false again, and once the mount effect has run loading
\* is false whenever no fetch is in flight.
C14_LoadingEnds ==
    /\ loading ~> (loading = FALSE)
    /\ []((mounted /\ inflight = EmptyBag) => loading = FALSE)

\* a cycle that ended in failure left loading false with nothing in flight
C14_Witness ==
    /\ last.ev = "catch"
    /\ mounted
    /\ inflight = EmptyBag
    /\ loading = FALSE

\* C15: the completion of any fetch sets loading to false without regard
\* to the fetches still in flight, so the grid or the error text is
\* rendered instead of the placeholder while a newer fetch is pending.
C15_LoadingIgnoresInFlight ==
    (last.ev \in {"then", "catch"}) =>
        /\ loading = FALSE
        /\ View \in {"grid", "error"}
        /\ View = "grid" => products = last.ret.products

\* the older fetch completed: the grid shows its records while the fetch
\* for the page of the URL is still in flight
C15_Witness ==
    /\ last.ev = "then"
    /\ last.page # page
    /\ Call(page) \in BagToSet(inflight)
    /\ loading = FALSE
    /\ View = "grid"

====
